---- MODULE Spec2Model ----
(***************************************************************************)
(* The crawl loop of webscraper.py (crawl, lines 25-151) and its caller    *)
(* (main, lines 250-264) as a state machine.                               *)
(*                                                                         *)
(* A URL is the pair (netloc, path) that urlparse extracts from it; a path *)
(* is a sequence of one-character strings.  A page text is its length and  *)
(* the set of lower-cased words of Words that occur in it.  Scores are     *)
(* exact multiples of 1/Scale: every score the bounded inputs produce is   *)
(* an integer number of units, so no division below ever truncates.        *)
(***************************************************************************)
EXTENDS Integers, Sequences, FiniteSets, TLC

\* ---------------------------------------------------------------- bounds
MaxPagesBound == 4     \* crawl is called with max_pages in 0..MaxPagesBound
MaxLinks == 2          \* a page holds at most MaxLinks <a href> elements
MaxKeywords == 3       \* the scoring is checked for lists of 0..MaxKeywords keywords
MaxQueueLen == 11      \* the pops are checked for queues of 0..MaxQueueLen entries

\* ------------------------------------------------------------- constants
Scale == 30000               \* one score unit is 1/Scale
LengthDivisor == 5000        \* len(text) / 5000
ReorderThreshold == 10       \* if len(queue) > 10
DefaultMaxPages == 1000      \* max_pages=1000
RelevanceThresholdNum == 2   \* relevance_score < 0.2  (2/10)
LengthWeightNum == 7         \* 0.7 * relevance_score
KeywordWeightNum == 3        \* 0.3 * keyword_score
LinkDecayNum == 8            \* relevance_score * 0.8
LinkBoostNum == 2            \* link_score += 0.2
Tenths == 10                 \* denominator of the decimal literals above

Min(a, b) == IF a < b THEN a ELSE b

\* ------------------------------------------------------------ characters
UpperChars == <<"A","B","C","D","E","F","G","H","I","J","K","L","M",
                "N","O","P","Q","R","S","T","U","V","W","X","Y","Z">>
LowerChars == <<"a","b","c","d","e","f","g","h","i","j","k","l","m",
                "n","o","p","q","r","s","t","u","v","w","x","y","z">>

\* str.lower() on one character, and on a path
LowerChar(c) ==
    IF \E i \in 1..Len(UpperChars) : UpperChars[i] = c
    THEN LowerChars[CHOOSE i \in 1..Len(UpperChars) : UpperChars[i] = c]
    ELSE c

Lower(s) == [i \in 1..Len(s) |-> LowerChar(s[i])]

\* `pattern in path`: pattern occurs as a contiguous substring of path
Contains(pattern, path) ==
    \E i \in 0..(Len(path) - Len(pattern)) :
        SubSeq(path, i + 1, i + Len(pattern)) = pattern

irrelevant_patterns == <<
    <<"/","c","h","a","n","g","e","l","o","g">>,
    <<"/","u","p","d","a","t","e","s">>,
    <<"/","a","r","c","h","i","v","e">>,
    <<"/","l","o","g">>,
    <<"/","p","r","i","v","a","c","y">>,
    <<"/","t","e","r","m","s">>,
    <<"/","s","i","t","e","m","a","p">>,
    <<"/","f","e","e","d">>,
    <<"/","w","p","-","c","o","n","t","e","n","t">>,
    <<"/","w","p","-","i","n","c","l","u","d","e","s">>,
    <<"/","t","a","g","/">>,
    <<"/","c","a","t","e","g","o","r","y","/">>,
    <<"/","a","u","t","h","o","r","/">>,
    <<"/","c","o","m","m","e","n","t">>,
    <<"/","t","r","a","c","k","b","a","c","k">>,
    <<"/","f","e","e","d">>,
    <<"/","r","s","s">> >>

\* ------------------------------------------------------------------ site
base_domain == "example.com"

start_url == [netloc |-> "example.com", path |-> <<>>]
UrlA      == [netloc |-> "example.com", path |-> <<"/","a">>]
UrlB      == [netloc |-> "example.com", path |-> <<"/","b">>]
UrlLogin  == [netloc |-> "example.com", path |-> <<"/","L","o","g","i","n">>]
UrlSub    == [netloc |-> "sub.example.com", path |-> <<"/","a">>]

\* the absolute URLs urljoin(url, href) can produce on this site
URLs == {start_url, UrlA, UrlB, UrlLogin, UrlSub}

Words == {"product"}

\* the keyword lists crawl is called with
KeywordLists == {<<>>, <<"product">>}

TextLens == {100, 1000, 10000}

\* the texts a page can have: its length and the words occurring in it
Texts == [len : TextLens, words : SUBSET Words]

\* soup.title is None / soup.title.string is None / a title string
TitleKinds == {"NoTitleTag", "NoneString", "Title"}

\* the <a href> elements of a page: the resolved URL and the link text's words
Links == [url : URLs, words : SUBSET Words]

\* no URL popped yet / no response yet / main's content_list never assigned
NoUrl == [netloc |-> "", path |-> <<>>]
NoResponse == [kind |-> "None"]
Unbound == [bound |-> FALSE]
Bound(value) == [bound |-> TRUE, value |-> value]

VARIABLES
    max_pages,          \* crawl's parameter
    keywords,           \* crawl's parameter
    queue,              \* deque of pending URLs
    visited,            \* set of URLs
    discovered_urls,    \* set of URLs
    content_list,       \* crawl's local list of page records
    url_scores,         \* dict URL -> score
    pc,                 \* crawl's position
    url,                \* the URL popped in this iteration
    response,           \* what requests.get returned in this iteration
    relevance_score,    \* the current page's score
    links_seen,         \* number of <a> elements iterated on the current page
    requests_issued,    \* number of requests.get calls per URL
    sat_pending,        \* the URLs pending when len(discovered_urls) first reached max_pages
    main_content_list,  \* main's variable content_list
    main_pc             \* main's position

vars == <<max_pages, keywords, queue, visited, discovered_urls, content_list,
          url_scores, pc, url, response, relevance_score, links_seen,
          requests_issued, sat_pending, main_content_list, main_pc>>

\* ------------------------------------------------------- pure functions
Range(s) == {s[i] : i \in 1..Len(s)}

\* lines 29-37: any(pattern in path for pattern in irrelevant_patterns)
IrrelevantPath(u) ==
    LET path == Lower(u.path) IN
    \E i \in 1..Len(irrelevant_patterns) : Contains(irrelevant_patterns[i], path)

\* IrrelevantPath, tabulated once for the URLs of the site
IrrelevantPathOf == [u \in URLs |-> IrrelevantPath(u)]

\* is_valid_url without the comparison of the host
is_valid_url_any_host(u, visited_set) ==
    IF IrrelevantPathOf[u]
    THEN FALSE
    ELSE u \notin visited_set

\* is_valid_url(url, visited_set), lines 26-40
is_valid_url(u, visited_set) ==
    IF IrrelevantPathOf[u]
    THEN FALSE
    ELSE u.netloc = base_domain /\ u \notin visited_set

\* sum(keyword.lower() in text_lower for keyword in keywords), line 95
KeywordMatches(text, kws) ==
    Cardinality({i \in 1..Len(kws) : kws[i] \in text.words})

\* the relevance without the two min(1.0, ...) caps
PageRelevanceUncapped(text, kws) ==
    LET base == (text.len * Scale) \div LengthDivisor IN
    IF kws # <<>>
    THEN LET keyword_score == (KeywordMatches(text, kws) * Scale) \div Len(kws)
         IN (LengthWeightNum * base + KeywordWeightNum * keyword_score) \div Tenths
    ELSE base

\* lines 90-97: the page's relevance in units of 1/Scale
PageRelevance(text, kws) ==
    LET base == Min(Scale, (text.len * Scale) \div LengthDivisor) IN
    IF kws # <<>>
    THEN LET keyword_score == Min(Scale, (KeywordMatches(text, kws) * Scale) \div Len(kws))
         IN (LengthWeightNum * base + KeywordWeightNum * keyword_score) \div Tenths
    ELSE base

\* a link score that inherits the parent's relevance in full
LinkScoreUndecayed(parent_score, link_words, kws) ==
    IF kws # <<>> /\ (\E i \in 1..Len(kws) : kws[i] \in link_words)
    THEN parent_score + (LinkBoostNum * Scale) \div Tenths
    ELSE parent_score

\* lines 120-124: the score estimate of a newly discovered link
LinkScore(parent_score, link_words, kws) ==
    LET inherited == (parent_score * LinkDecayNum) \div Tenths IN
    IF kws # <<>> /\ (\E i \in 1..Len(kws) : kws[i] \in link_words)
    THEN inherited + (LinkBoostNum * Scale) \div Tenths
    ELSE inherited

\* the threshold test with <= for <
LowRelevanceInclusive(score) == score * Tenths <= RelevanceThresholdNum * Scale

\* a threshold test that discards no page
LowRelevanceNever(score) == FALSE

\* relevance_score < 0.2, line 100
LowRelevance(score) == score * Tenths < RelevanceThresholdNum * Scale

\* list.sort(key=..., reverse=True) on a sequence of [key, val] records:
\* stable, descending by key
RECURSIVE InsertDesc(_, _)
InsertDesc(sorted, x) ==
    IF sorted = <<>> THEN <<x>>
    ELSE IF Head(sorted).key >= x.key
         THEN <<Head(sorted)>> \o InsertDesc(Tail(sorted), x)
         ELSE <<x>> \o sorted

RECURSIVE SortDesc(_)
SortDesc(s) ==
    IF s = <<>> THEN <<>>
    ELSE InsertDesc(SortDesc(SubSeq(s, 1, Len(s) - 1)), s[Len(s)])

\* url_scores.get(u, 0.0), line 60
ScoreOf(scores, u) == IF u \in DOMAIN scores THEN scores[u] ELSE 0

\* a queue that is never sorted
ReorderNever(q, scores) == q

\* lines 57-61: the queue as the pop sees it
Reorder(q, scores) ==
    IF Len(q) > ReorderThreshold
    THEN LET keyed == SortDesc([i \in 1..Len(q) |-> [key |-> ScoreOf(scores, q[i]), val |-> q[i]]])
         IN [i \in 1..Len(q) |-> keyed[i].val]
    ELSE q

\* the final sort left out
Unsorted(records) == records

\* line 149: content_list.sort(key=relevance, reverse=True)
SortContent(records) ==
    LET keyed == SortDesc([i \in 1..Len(records) |-> [key |-> records[i].relevance, val |-> records[i]]])
    IN [i \in 1..Len(records) |-> keyed[i].val]

\* the while condition without its discovery bound
LoopConditionNoBound(q, discovered, bound) == q # <<>>

\* line 55: the while condition
LoopCondition(q, discovered, bound) == q # <<>> /\ Cardinality(discovered) < bound

\* the popped URL is never taken for visited
NeverVisited(u, visited_set) == FALSE

\* line 64: the visited check on the popped URL
AlreadyVisited(u, visited_set) == u \in visited_set

\* the popped URL is not remembered
VisitedAddNothing(visited_set, u) == visited_set

\* line 67: visited.add(url)
VisitedAdd(visited_set, u) == visited_set \cup {u}

\* len(discovered_urls) >= max_pages
Saturated(discovered, bound) == Cardinality(discovered) >= bound

\* the records appended at lines 105-110 and 135-140; of the field text only
\* its length is kept, -1 standing for the failure description of line 138
PageRecord(u, title, text_len, score) ==
    [url |-> u, title |-> title, text |-> text_len, relevance |-> score]

ErrorRecord(u) == PageRecord(u, [string |-> "Error"], -1, 0)

\* lines 79-80: the title of a page whose soup.title.string is a string
TitleOf(u, title_kind) ==
    IF title_kind = "NoTitleTag" THEN [url |-> u] ELSE [string |-> "Title"]

\* the pending URLs at the first moment the discovery bound is reached
SaturationNote(note, q, discovered, bound) ==
    IF ~note.reached /\ Saturated(discovered, bound)
    THEN [reached |-> TRUE, pending |-> Range(q)]
    ELSE note

\* the positions inside the try block of lines 54-143
InLoop == {"loop", "fetch", "links", "sleep"}

\* the driver's state: Running, Completed, Interrupted, or aborted by an
\* exception that is neither caught nor an interrupt
State ==
    CASE pc \in InLoop -> "Running"
      [] pc = "returned" -> "Completed"
      [] pc = "KeyboardInterrupt" -> "Interrupted"
      [] OTHER -> "Aborted"

\* line 264: save_to_docx(content_list, base_domain) reads main's variable;
\* reading a local that was never assigned raises UnboundLocalError
MainSave(var) == IF var.bound THEN "saved" ELSE "UnboundLocalError"

\* ----------------------------------------------------------------- Init
\* lines 43-52, with main still inside its call of crawl (line 251)
Init ==
    /\ max_pages \in 0..MaxPagesBound
    /\ keywords \in KeywordLists
    /\ queue = <<start_url>>
    /\ visited = {}
    /\ discovered_urls = {start_url}
    /\ content_list = <<>>
    /\ url_scores = [u \in {start_url} |-> Scale]
    /\ pc = "loop"
    /\ url = NoUrl
    /\ response = NoResponse
    /\ relevance_score = 0
    /\ links_seen = 0
    /\ requests_issued = [u \in URLs |-> 0]
    /\ sat_pending = SaturationNote([reached |-> FALSE, pending |-> {}],
                                    <<start_url>>, {start_url}, max_pages)
    /\ main_content_list = Unbound
    /\ main_pc = "crawl"

\* -------------------------------------------------------------- actions
\* The locals response, relevance_score and the link iterator are dead at the
\* top of an iteration (each is assigned before it is read again), so the pop
\* resets them to one value.

\* lines 55-66: the loop condition holds, the popped URL is already visited
PopSkip ==
    /\ pc = "loop"
    /\ LoopCondition(queue, discovered_urls, max_pages)
    /\ LET q == Reorder(queue, url_scores) IN
        /\ AlreadyVisited(Head(q), visited)
        /\ url' = Head(q)
        /\ queue' = Tail(q)
    /\ response' = NoResponse
    /\ relevance_score' = 0
    /\ links_seen' = 0
    /\ UNCHANGED <<max_pages, keywords, visited, discovered_urls, content_list,
                   url_scores, pc, requests_issued, sat_pending,
                   main_content_list, main_pc>>

\* lines 55-69: the loop condition holds, the popped URL is marked visited
PopVisit ==
    /\ pc = "loop"
    /\ LoopCondition(queue, discovered_urls, max_pages)
    /\ LET q == Reorder(queue, url_scores) IN
        /\ ~AlreadyVisited(Head(q), visited)
        /\ url' = Head(q)
        /\ queue' = Tail(q)
        /\ visited' = VisitedAdd(visited, Head(q))
    /\ pc' = "fetch"
    /\ response' = NoResponse
    /\ relevance_score' = 0
    /\ links_seen' = 0
    /\ UNCHANGED <<max_pages, keywords, discovered_urls, content_list,
                   url_scores, requests_issued, sat_pending,
                   main_content_list, main_pc>>

\* lines 55, 148-151, 251 and 260-265: the loop condition fails, crawl sorts
\* and returns, main binds the result and hands it to save_to_docx
Return ==
    /\ pc = "loop"
    /\ ~LoopCondition(queue, discovered_urls, max_pages)
    /\ content_list' = SortContent(content_list)
    /\ pc' = "returned"
    /\ main_content_list' = Bound(content_list')
    /\ main_pc' = MainSave(main_content_list')
    /\ UNCHANGED <<max_pages, keywords, queue, visited, discovered_urls,
                   url_scores, url, response, relevance_score, links_seen,
                   requests_issued, sat_pending>>

\* line 71: one more request for the current URL
IssueRequest == [requests_issued EXCEPT ![url] = @ + 1]

\* lines 71-72 raise RequestException; lines 133-140 record it
FetchFails ==
    /\ pc = "fetch"
    /\ requests_issued' = IssueRequest
    /\ response' = [kind |-> "RequestException"]
    /\ content_list' = Append(content_list, ErrorRecord(url))
    /\ pc' = "sleep"
    /\ UNCHANGED <<max_pages, keywords, queue, visited, discovered_urls,
                   url_scores, url, relevance_score, links_seen,
                   sat_pending, main_content_list, main_pc>>

\* lines 74-76: the response is not HTML
FetchNonHtml ==
    /\ pc = "fetch"
    /\ requests_issued' = IssueRequest
    /\ response' = [kind |-> "NonHtml"]
    /\ pc' = "loop"
    /\ UNCHANGED <<max_pages, keywords, queue, visited, discovered_urls,
                   content_list, url_scores, url, relevance_score, links_seen,
                   sat_pending, main_content_list, main_pc>>

\* lines 78-80: soup.title exists and soup.title.string is None, so
\* title.strip() raises AttributeError, which neither except clause of crawl
\* nor the one of main (line 258) catches
FetchHtmlNoneTitle ==
    /\ pc = "fetch"
    /\ \E x \in Texts :
        response' = [kind |-> "Html", title |-> "NoneString", text |-> x]
    /\ requests_issued' = IssueRequest
    /\ pc' = "AttributeError"
    /\ main_pc' = "Traceback"
    /\ UNCHANGED <<max_pages, keywords, queue, visited, discovered_urls,
                   content_list, url_scores, url, relevance_score, links_seen,
                   sat_pending, main_content_list>>

\* lines 78-102: an HTML page whose relevance is below the threshold
FetchHtmlLow ==
    /\ pc = "fetch"
    /\ \E t \in TitleKinds \ {"NoneString"}, x \in Texts :
        /\ LowRelevance(PageRelevance(x, keywords))
        /\ response' = [kind |-> "Html", title |-> t, text |-> x]
        /\ relevance_score' = PageRelevance(x, keywords)
    /\ requests_issued' = IssueRequest
    /\ pc' = "loop"
    /\ UNCHANGED <<max_pages, keywords, queue, visited, discovered_urls,
                   content_list, url_scores, url, links_seen,
                   sat_pending, main_content_list, main_pc>>

\* lines 78-112: an HTML page that is kept
FetchHtmlKept ==
    /\ pc = "fetch"
    /\ \E t \in TitleKinds \ {"NoneString"}, x \in Texts :
        /\ ~LowRelevance(PageRelevance(x, keywords))
        /\ response' = [kind |-> "Html", title |-> t, text |-> x]
        /\ relevance_score' = PageRelevance(x, keywords)
        /\ content_list' = Append(content_list,
               PageRecord(url, TitleOf(url, t), x.len, PageRelevance(x, keywords)))
    /\ requests_issued' = IssueRequest
    /\ links_seen' = 0
    /\ pc' = "links"
    /\ UNCHANGED <<max_pages, keywords, queue, visited, discovered_urls,
                   url_scores, url, sat_pending, main_content_list, main_pc>>

\* line 126: url_scores[absolute_url] = link_score
SetScore(scores, u, score) ==
    [v \in DOMAIN scores \cup {u} |-> IF v = u THEN score ELSE scores[v]]

\* lines 113-130: one iteration of the loop over the page's links
\* the link loop's score assignment made at every discovery
OfferScoreOverwrite(scores, discovered, u, score) == SetScore(scores, u, score)

\* a link loop that gives no score
OfferScoreNothing(scores, discovered, u, score) == scores

\* if absolute_url not in discovered_urls: ... url_scores[absolute_url] =
\* link_score, lines 116-126
OfferScore(scores, discovered, u, score) ==
    IF u \notin discovered
    THEN SetScore(scores, u, score)
    ELSE scores

ProcessLink ==
    /\ pc = "links"
    /\ links_seen < MaxLinks
    /\ \E link \in Links :
        LET absolute_url == link.url IN
        IF is_valid_url(absolute_url, visited)
        THEN /\ url_scores' =
                    OfferScore(url_scores, discovered_urls, absolute_url,
                               LinkScore(relevance_score, link.words, keywords))
             /\ discovered_urls' = discovered_urls \cup {absolute_url}
             /\ queue' = IF absolute_url \notin visited
                         THEN Append(queue, absolute_url)
                         ELSE queue
        ELSE UNCHANGED <<url_scores, discovered_urls, queue>>
    /\ links_seen' = links_seen + 1
    /\ sat_pending' = SaturationNote(sat_pending, queue', discovered_urls', max_pages)
    /\ UNCHANGED <<max_pages, keywords, visited, content_list, pc, url, response,
                   relevance_score, requests_issued, main_content_list, main_pc>>

\* line 131: the loop over the links is exhausted
EndLinks ==
    /\ pc = "links"
    /\ pc' = "sleep"
    /\ UNCHANGED <<max_pages, keywords, queue, visited, discovered_urls,
                   content_list, url_scores, url, response, relevance_score,
                   links_seen, requests_issued, sat_pending, main_content_list,
                   main_pc>>

\* line 142: time.sleep(0.1)
Sleep ==
    /\ pc = "sleep"
    /\ pc' = "loop"
    /\ UNCHANGED <<max_pages, keywords, queue, visited, discovered_urls,
                   content_list, url_scores, url, response, relevance_score,
                   links_seen, requests_issued, sat_pending, main_content_list,
                   main_pc>>

\* lines 144-146 and 258-264: KeyboardInterrupt inside the try block; crawl
\* re-raises it, main prints and goes on to save_to_docx(content_list, ...)
Interrupt ==
    /\ pc \in InLoop
    /\ pc' = "KeyboardInterrupt"
    /\ main_pc' = MainSave(main_content_list)
    /\ UNCHANGED <<max_pages, keywords, queue, visited, discovered_urls,
                   content_list, url_scores, url, response, relevance_score,
                   links_seen, requests_issued, sat_pending, main_content_list>>

\* the steps of crawl itself
CrawlStep ==
    \/ PopSkip
    \/ PopVisit
    \/ Return
    \/ FetchFails
    \/ FetchNonHtml
    \/ FetchHtmlNoneTitle
    \/ FetchHtmlLow
    \/ FetchHtmlKept
    \/ ProcessLink
    \/ EndLinks
    \/ Sleep

Next == CrawlStep \/ Interrupt

Spec == Init /\ [][Next]_vars

\* the interpreter always runs the next statement; an interrupt need not come
FairSpec == Spec /\ WF_vars(CrawlStep)

\* ---------------------------------------------------------- properties
RECURSIVE SumRequests(_)
SumRequests(S) ==
    IF S = {} THEN 0
    ELSE LET u == CHOOSE v \in S : TRUE IN requests_issued[u] + SumRequests(S \ {u})

\* the number of requests.get calls so far
TotalRequests == SumRequests(URLs)

\* the number of entries of q that are u
Occurrences(q, u) == Cardinality({i \in 1..Len(q) : q[i] = u})

\* the URLs whose fetch failed with a transport error
FailedUrls == {content_list[i].url : i \in {j \in 1..Len(content_list) :
                                              content_list[j].title = [string |-> "Error"]}}

\* the state right after a pop that skipped an already visited URL
JustSkipped == pc = "loop" /\ url # NoUrl /\ response = NoResponse

\* C1: once len(discovered_urls) >= max_pages no step adds a URL to
\* discovered_urls or to the queue, and for max_pages >= 1 the size of
\* discovered_urls never exceeds max_pages
C1_Saturation ==
    /\ [][Saturated(discovered_urls, max_pages) =>
            /\ discovered_urls' = discovered_urls
            /\ \A u \in URLs : Occurrences(queue', u) <= Occurrences(queue, u)]_vars
    /\ [](max_pages >= 1 => Cardinality(discovered_urls) <= max_pages)

\* C2: when crawl has returned (no interrupt), every URL that was pending at
\* the moment len(discovered_urls) reached max_pages has been popped and
\* marked visited
C2_DrainAfterSaturation ==
    State = "Completed" => sat_pending.pending \subseteq visited

\* C3: after an interrupt of the crawl loop the caller holds a collection
\* that contains every record appended before the interrupt
C3_InterruptPreservesRecords ==
    State = "Interrupted" =>
        /\ main_content_list.bound
        /\ Range(content_list) \subseteq Range(main_content_list.value)

\* C4: no URL is requested more than once
C4_FetchedAtMostOnce == \A u \in URLs : requests_issued[u] <= 1

\* C4 witness: a URL that was fetched once has been popped a second time and
\* skipped
C4_Witness == JustSkipped /\ requests_issued[url] = 1 /\ url \notin FailedUrls

\* C5: the collection crawl returns holds at most max_pages records, with
\* pairwise distinct URLs that are all in discovered_urls
C5_RecordBound ==
    main_content_list.bound =>
        LET c == main_content_list.value IN
        /\ Len(c) <= max_pages
        /\ \A i, j \in 1..Len(c) : c[i].url = c[j].url => i = j
        /\ \A i \in 1..Len(c) : c[i].url \in discovered_urls

\* C5 witness: crawl returned three records
C5_Witness == main_content_list.bound /\ Len(main_content_list.value) = 3

\* C6: with no interrupt crawl eventually leaves the loop and is Completed,
\* and the number of fetches never exceeds max_pages
C6_Termination ==
    /\ <>(State \in {"Completed", "Interrupted"})
    /\ [](TotalRequests <= max_pages)

\* C7: processing one URL leaves the driver Running unless an interrupt
\* arrives, and the loop is left for Completed only when its condition fails
C7_NoOutcomeAborts ==
    [][State = "Running" =>
         /\ State' \in {"Running", "Completed", "Interrupted"}
         /\ pc \in {"fetch", "links", "sleep"} => State' \in {"Running", "Interrupted"}
         /\ State' = "Completed" => ~LoopCondition(queue, discovered_urls, max_pages)]_vars

\* C8: a URL whose fetch failed has exactly one record, with title "Error"
\* and relevance 0.0, and from then on no step appends it to the queue or
\* requests it again
C8_FailedNeverRetried ==
    /\ [](\A u \in FailedUrls :
            /\ Cardinality({i \in 1..Len(content_list) : content_list[i].url = u}) = 1
            /\ \A i \in 1..Len(content_list) :
                 content_list[i].url = u => content_list[i].relevance = 0
            /\ requests_issued[u] = 1)
    /\ [][\A u \in FailedUrls :
            /\ Occurrences(queue', u) <= Occurrences(queue, u)
            /\ requests_issued'[u] = requests_issued[u]]_vars

\* C8 witness: a URL that the links of two pages had queued failed at its
\* first pop, and its second pop was skipped
C8_Witness ==
    /\ JustSkipped
    /\ url \in FailedUrls
    /\ requests_issued[url] = 1
    /\ Len(content_list) = 3

\* C9: a page scoring below 0.2 appends no record and leaves the queue,
\* discovered_urls and url_scores unchanged; a page scoring 0.2 or more is
\* recorded and its links are iterated
C9_LowRelevanceDeadEnd ==
    [][(pc = "fetch" /\ response'.kind = "Html" /\ pc' # "AttributeError") =>
         IF relevance_score' * Tenths < RelevanceThresholdNum * Scale
         THEN /\ UNCHANGED <<content_list, queue, discovered_urls, url_scores>>
              /\ pc' = "loop"
         ELSE /\ Len(content_list') = Len(content_list) + 1
              /\ content_list'[Len(content_list')].url = url
              /\ content_list'[Len(content_list')].relevance = relevance_score'
              /\ pc' = "links"]_vars

\* C9 witness: a page linked from a kept page was discarded for low
\* relevance while another URL was pending
C9_Witness ==
    /\ pc = "loop"
    /\ response.kind = "Html"
    /\ relevance_score * Tenths < RelevanceThresholdNum * Scale
    /\ url # start_url
    /\ queue # <<>>
    /\ \A i \in 1..Len(content_list) : content_list[i].url # url

\* C10: the collection crawl returns is non-increasing in relevance
C10_SortedDescending ==
    main_content_list.bound =>
        LET c == main_content_list.value IN
        \A i \in 1..(Len(c) - 1) : c[i].relevance >= c[i + 1].relevance

\* C10 witness: the returned collection starts with a page fetched after the
\* seed and ends with an error record
C10_Witness ==
    /\ main_content_list.bound
    /\ LET c == main_content_list.value IN
        /\ Len(c) = 3
        /\ c[1].url # start_url
        /\ c[1].relevance > c[2].relevance
        /\ c[3].title = [string |-> "Error"]

\* the URLs a step adds to discovered_urls or appends to the queue
AddedUrls ==
    (discovered_urls' \ discovered_urls)
    \cup {u \in URLs : Occurrences(queue', u) > Occurrences(queue, u)}

\* C11: every URL that a step adds to discovered_urls or to the queue has
\* the target domain as its host and a path that holds none of the
\* irrelevant patterns, and every URL requested other than the seed is on
\* the target domain
C11_DomainConfinement ==
    /\ [][\A u \in AddedUrls :
            /\ u.netloc = base_domain
            /\ \A i \in 1..Len(irrelevant_patterns) :
                 /\ ~Contains(irrelevant_patterns[i], u.path)
                 /\ ~Contains(irrelevant_patterns[i], Lower(u.path))]_vars
    /\ [](\A u \in URLs \ {start_url} :
            requests_issued[u] > 0 => u.netloc = base_domain)

\* C11 witness: two pages have been processed with all their links, both
\* URLs of the target domain were discovered and one of them requested,
\* and nothing else was discovered
C11_Witness ==
    /\ pc = "sleep"
    /\ links_seen = MaxLinks
    /\ url # start_url
    /\ requests_issued[url] = 1
    /\ discovered_urls = {start_url, UrlA, UrlB}

\* C12: the score of a URL is the one given at its first discovery: the seed
\* has 1.0 and no step changes the score of a URL that already has one
C12_FirstWriteWins ==
    /\ [](url_scores[start_url] = Scale)
    /\ [][\A u \in DOMAIN url_scores :
            /\ u \in DOMAIN url_scores'
            /\ url_scores'[u] = url_scores[u]]_vars

\* C12 witness: a URL was found again by the links of a second page, whose
\* relevance gives a different link score with and without the keyword
\* boost, and kept the score of its first discovery
C12_Witness ==
    /\ pc = "links"
    /\ url \in {UrlA, UrlB}
    /\ \E u \in discovered_urls \ {start_url, url} :
        /\ Occurrences(queue, u) = 2
        /\ \A w \in SUBSET Words :
             LinkScore(relevance_score, w, keywords) # url_scores[u]

(***************************************************************************)
(* The scoring of one page, lines 89-110 and 133-140, over keyword lists   *)
(* of every length up to MaxKeywords, repeated keywords included, and over *)
(* texts shorter than, equal to and longer than LengthDivisor.             *)
(***************************************************************************)
ScoreWords == {"product", "service"}

ScoreKeywordLists == UNION {[1..n -> ScoreWords] : n \in 0..MaxKeywords}

ScoreTextLens == {0, 100, 1000, 4995, 5000, 10000}

\* an empty text holds no word
ScoreTexts ==
    {x \in [len : ScoreTextLens, words : SUBSET ScoreWords] :
        x.len = 0 => x.words = {}}

\* crawl has popped the seed and is about to request it
ScoreInit ==
    /\ max_pages = MaxPagesBound
    /\ keywords \in ScoreKeywordLists
    /\ queue = <<>>
    /\ visited = {start_url}
    /\ discovered_urls = {start_url}
    /\ content_list = <<>>
    /\ url_scores = [u \in {start_url} |-> Scale]
    /\ pc = "fetch"
    /\ url = start_url
    /\ response = NoResponse
    /\ relevance_score = 0
    /\ links_seen = 0
    /\ requests_issued = [u \in URLs |-> 0]
    /\ sat_pending = SaturationNote([reached |-> FALSE, pending |-> {}],
                                    <<>>, {start_url}, max_pages)
    /\ main_content_list = Unbound
    /\ main_pc = "crawl"

\* lines 89-110: the page is scored and, unless its relevance is low, recorded
ScorePage ==
    /\ pc = "fetch"
    /\ \E t \in TitleKinds \ {"NoneString"}, x \in ScoreTexts :
        /\ response' = [kind |-> "Html", title |-> t, text |-> x]
        /\ relevance_score' = PageRelevance(x, keywords)
        /\ content_list' =
             IF LowRelevance(PageRelevance(x, keywords))
             THEN content_list
             ELSE Append(content_list,
                    PageRecord(url, TitleOf(url, t), x.len, PageRelevance(x, keywords)))
    /\ requests_issued' = IssueRequest
    /\ pc' = "scored"
    /\ UNCHANGED <<max_pages, keywords, queue, visited, discovered_urls,
                   url_scores, url, links_seen, sat_pending,
                   main_content_list, main_pc>>

\* lines 133-140: the record of a failed request
ScoreException ==
    /\ pc = "fetch"
    /\ requests_issued' = IssueRequest
    /\ response' = [kind |-> "RequestException"]
    /\ content_list' = Append(content_list, ErrorRecord(url))
    /\ pc' = "scored"
    /\ UNCHANGED <<max_pages, keywords, queue, visited, discovered_urls,
                   url_scores, url, relevance_score, links_seen,
                   sat_pending, main_content_list, main_pc>>

ScoreNext == ScorePage \/ ScoreException

ScoreSpec == ScoreInit /\ [][ScoreNext]_vars

\* C13: the relevance computed for a page and the relevance of every record
\* lie between 0.0 and 1.0, whatever the text length and the keyword list,
\* the empty list and lists with repeated keywords included
C13_ScoreBounds ==
    /\ 0 <= relevance_score
    /\ relevance_score <= Scale
    /\ \A i \in 1..Len(content_list) :
        /\ 0 <= content_list[i].relevance
        /\ content_list[i].relevance <= Scale

\* C13 witness: a text longer than LengthDivisor that holds a keyword given
\* twice in the list was scored and recorded with relevance 1.0
C13_Witness ==
    /\ pc = "scored"
    /\ Len(keywords) >= 2
    /\ keywords[1] = keywords[2]
    /\ response.kind = "Html"
    /\ response.text.len > LengthDivisor
    /\ Len(content_list) = 1
    /\ content_list[1].relevance = Scale

\* the number of records that content_list holds for a URL
RecordsOf(records, u) ==
    Cardinality({i \in 1..Len(records) : records[i].url = u})

\* C14 as stated: at every loop boundary each visited URL has exactly one
\* record
C14_ExactlyOneRecord ==
    pc = "loop" => \A u \in visited : RecordsOf(content_list, u) = 1

\* C14 amended: at every loop boundary a URL has at most one record and only
\* a visited URL has one; the request of a URL leaves it with exactly one
\* record when it failed or when the page reached the relevance threshold,
\* and with none when the response was not HTML or the relevance was lower
C14_AtMostOneRecord ==
    /\ [](pc = "loop" =>
            \A u \in URLs :
                /\ RecordsOf(content_list, u) <= 1
                /\ RecordsOf(content_list, u) = 1 => u \in visited)
    /\ [][(pc = "fetch" /\ pc' \in {"loop", "sleep", "links"}) =>
            RecordsOf(content_list', url) =
                IF \/ response'.kind = "RequestException"
                   \/ /\ response'.kind = "Html"
                      /\ relevance_score' * Tenths >= RelevanceThresholdNum * Scale
                THEN 1
                ELSE 0]_vars

\* C14 witness: at a loop boundary one visited URL has its record and
\* another, whose response was not HTML or scored low, has none
C14_Witness ==
    /\ pc = "loop"
    /\ response # NoResponse
    /\ response.kind \in {"NonHtml", "Html"}
    /\ RecordsOf(content_list, url) = 0
    /\ \E v \in visited : RecordsOf(content_list, v) = 1

(***************************************************************************)
(* The pops of lines 55-67 on queues of up to MaxQueueLen entries.  The    *)
(* seed page was kept and held one link for every entry of the queue, to   *)
(* /a or to /b, with or without a keyword in its text; crawl is back at    *)
(* the loop head.  max_pages is 2 or more, since the seed was requested.   *)
(* Every popped URL answers with a response that is not HTML, so the queue *)
(* only shrinks.                                                           *)
(***************************************************************************)
PendingUrls == {UrlA, UrlB}

PopQueues == UNION {[1..n -> PendingUrls] : n \in 0..MaxQueueLen}

\* the seed page: 1000 characters holding the keyword
SeedText == [len |-> 1000, words |-> Words]

PopInit ==
    /\ max_pages \in (2..MaxPagesBound) \cup {DefaultMaxPages}
    /\ keywords \in KeywordLists
    /\ queue \in PopQueues
    /\ visited = {start_url}
    /\ discovered_urls = {start_url} \cup Range(queue)
    /\ relevance_score = PageRelevance(SeedText, keywords)
    /\ content_list = <<PageRecord(start_url, TitleOf(start_url, "Title"),
                                   SeedText.len, relevance_score)>>
    /\ \E link_words \in [PendingUrls -> SUBSET Words] :
        url_scores = [u \in discovered_urls |->
                        IF u = start_url
                        THEN Scale
                        ELSE LinkScore(relevance_score, link_words[u], keywords)]
    /\ pc = "loop"
    /\ url = start_url
    /\ response = [kind |-> "Html", title |-> "Title", text |-> SeedText]
    /\ links_seen = Len(queue)
    /\ requests_issued = [u \in URLs |-> IF u = start_url THEN 1 ELSE 0]
    /\ sat_pending = SaturationNote([reached |-> FALSE, pending |-> {}],
                                    queue, discovered_urls, max_pages)
    /\ main_content_list = Unbound
    /\ main_pc = "crawl"

PopNext == PopSkip \/ PopVisit \/ FetchNonHtml

PopSpec == PopInit /\ [][PopNext]_vars

\* a step that pops the queue
PopStep == Len(queue') < Len(queue)

\* C15 as stated: at every pop the score of the popped URL is at least the
\* score of every URL still pending
C15_PopReturnsMaximum ==
    [][PopStep =>
        \A i \in 1..Len(queue') :
            ScoreOf(url_scores, url') >= ScoreOf(url_scores, queue'[i])]_vars

\* C15 amended: a pop from more than ReorderThreshold entries returns the
\* earliest entry among those of maximum score and leaves the others
\* pending; a pop from fewer entries returns the head of the queue
C15_PopPriority ==
    [][PopStep =>
        IF Len(queue) > ReorderThreshold
        THEN /\ \A i \in 1..Len(queue) :
                  ScoreOf(url_scores, url') >= ScoreOf(url_scores, queue[i])
             /\ \E i \in 1..Len(queue) :
                  /\ queue[i] = url'
                  /\ \A j \in 1..(i - 1) :
                       ScoreOf(url_scores, queue[j]) < ScoreOf(url_scores, url')
             /\ \A u \in URLs :
                  Occurrences(queue', u) =
                      Occurrences(queue, u) - (IF u = url' THEN 1 ELSE 0)
        ELSE /\ url' = Head(queue)
             /\ queue' = Tail(queue)]_vars

\* C15 witness: a pop from more than ReorderThreshold entries has returned a
\* URL whose score is higher than the score of another URL left pending
C15_Witness ==
    /\ pc = "fetch"
    /\ Len(queue) = ReorderThreshold
    /\ PendingUrls \subseteq Range(queue)
    /\ \E u \in Range(queue) :
         ScoreOf(url_scores, u) < ScoreOf(url_scores, url)
    /\ \A i \in 1..(Len(queue) - 1) :
         ScoreOf(url_scores, queue[i]) >= ScoreOf(url_scores, queue[i + 1])

\* C16 as stated: the queue never holds the same URL twice and never holds
\* a visited URL
C16_QueueHoldsNoDuplicate ==
    \A u \in URLs :
        /\ Occurrences(queue, u) <= 1
        /\ u \in visited => Occurrences(queue, u) = 0

\* C16 amended: no URL is appended to the queue while it is visited, and a
\* pop that returns a visited URL goes back to the loop head with no
\* request, no record and no change of the visited set
C16_VisitedNeverAppended ==
    [][/\ \A u \in URLs :
            Occurrences(queue', u) > Occurrences(queue, u) =>
                u \notin visited /\ u \notin visited'
       /\ (PopStep /\ url' \in visited) =>
            /\ pc' = "loop"
            /\ requests_issued' = requests_issued
            /\ content_list' = content_list
            /\ visited' = visited]_vars

\* C16 witness: a visited URL was popped and skipped and the queue still
\* holds it once more
C16_Witness ==
    /\ JustSkipped
    /\ url \in visited
    /\ Occurrences(queue, url) >= 1

\* C17 as stated: the length of the queue is at most max_pages
C17_QueueLengthBounded == Len(queue) <= max_pages

\* C17 amended: the queue that a pop sorts holds fewer than max_pages
\* different URLs
C17_DistinctPendingBounded ==
    [][PopStep => Cardinality(Range(queue)) < max_pages]_vars

\* C17 witness: the queue was sorted and popped while it held more entries
\* than max_pages
C17_Witness ==
    /\ pc = "fetch"
    /\ Len(queue) >= ReorderThreshold
    /\ Len(queue) + 1 > max_pages
    /\ Cardinality(Range(queue)) + 1 < max_pages

\* the loop is at its head and its next iteration pops and requests a URL
NextPopFetches ==
    /\ pc = "loop"
    /\ LoopCondition(queue, discovered_urls, max_pages)
    /\ ~AlreadyVisited(Head(Reorder(queue, url_scores)), visited)

\* C18: after a request, whatever its outcome, the loop head is reached
\* with a further URL to pop and request only through the delay of
\* time.sleep
C18_DelayAfterEveryFetch ==
    [][(pc # "loop" /\ NextPopFetches') => pc = "sleep"]_vars

\* C19: the score of every URL of the frontier lies between 0.0 and 1.0
\* and the seed has 1.0
C19_FrontierScoreBounds ==
    /\ url_scores[start_url] = Scale
    /\ \A u \in DOMAIN url_scores :
        /\ 0 <= url_scores[u]
        /\ url_scores[u] <= Scale
    /\ \A i \in 1..Len(queue) :
        /\ 0 <= ScoreOf(url_scores, queue[i])
        /\ ScoreOf(url_scores, queue[i]) <= Scale

\* C19 witness: the queue holds a link that was found on a page of
\* relevance 1.0 with a keyword in its text and was scored 0.8 + 0.2
C19_Witness ==
    /\ relevance_score = Scale
    /\ keywords # <<>>
    /\ \E i \in 1..Len(queue) :
        /\ queue[i] # start_url
        /\ url_scores[queue[i]] =
              (Scale * LinkDecayNum) \div Tenths + (LinkBoostNum * Scale) \div Tenths
        /\ url_scores[queue[i]] = Scale

\* C20: every visited URL and every queued URL is discovered, the URLs
\* that have a score are exactly the discovered ones, so that the sort key
\* never takes its default, and no step removes a URL from the visited or
\* from the discovered set
C20_Bookkeeping ==
    /\ [](/\ visited \subseteq discovered_urls
          /\ Range(queue) \subseteq discovered_urls
          /\ DOMAIN url_scores = discovered_urls
          /\ \A i \in 1..Len(queue) : queue[i] \in DOMAIN url_scores)
    /\ [][/\ visited \subseteq visited'
          /\ discovered_urls \subseteq discovered_urls']_vars

\* C20 witness: all three URLs of the target domain are discovered and
\* scored, two of them are visited and the third is queued
C20_Witness ==
    /\ Cardinality(discovered_urls) = 3
    /\ Cardinality(visited) = 2
    /\ Range(queue) = discovered_urls \ visited
    /\ pc = "links"
    /\ links_seen >= 1

====
